---- MODULE Spec2Model ----
(***************************************************************************)
(* GitHubStatsService (src/src/services/github_stats_service.py): the      *)
(* profile request, the cursor pagination of the repository collection,    *)
(* the reductions over the fetched collection and the assembly of the      *)
(* GitHubStats snapshot.                                                    *)
(*                                                                         *)
(* JSON values are tagged records: k is the kind ("null", "int", "bool",   *)
(* "str", "obj"); a JSON object is a record whose other fields are its     *)
(* keys, so an absent key is a field that is not in its DOMAIN.  Raised    *)
(* is the outcome of a Python expression that raises.                      *)
(***************************************************************************)
EXTENDS Integers, Sequences, FiniteSets, TLC

\* ------------------------------------------------------------- bounds
\* Requests one pagination run of the model may issue.
MaxPages == 2
\* Largest metric value a repository record of the feed carries.
MaxCount == 2

\* ------------------------------------------------------- JSON values
JNull == [k |-> "null"]
JInt(n) == [k |-> "int", v |-> n]
JBool(b) == [k |-> "bool", v |-> b]
JStr(s) == [k |-> "str", v |-> s]
EmptyObj == [k |-> "obj"]
Raised == [k |-> "raise"]
NoneVal == JNull

\* Python truthiness of a decoded JSON value.
Truthy(x) ==
  CASE x.k = "null" -> FALSE
    [] x.k = "int" -> x.v # 0
    [] x.k = "bool" -> x.v
    [] x.k = "str" -> x.v # ""
    [] x.k = "obj" -> DOMAIN x # {"k"}
    [] x.k = "list" -> x.n > 0
    [] OTHER -> FALSE

\* o.get(key, default): AttributeError when o is not a dict.
Get(o, key, default) ==
  IF o.k = "raise" THEN Raised
  ELSE IF o.k # "obj" THEN Raised
  ELSE IF key \in DOMAIN o THEN o[key] ELSE default

\* o[key]: TypeError when o is not a dict, KeyError when the key is absent.
Sub(o, key) ==
  IF o.k # "obj" THEN Raised
  ELSE IF key \in DOMAIN o THEN o[key] ELSE Raised

\* {"totalCount": n}
CountObj(n) == [k |-> "obj", totalCount |-> JInt(n)]

\* ------------------------------------------------ per-repository terms
\* repo.get("stargazerCount", 0)
StarsOf(repo) == Get(repo, "stargazerCount", JInt(0))

\* repo.get("forkCount", 0)
ForksOf(repo) == Get(repo, "forkCount", JInt(0))

\* repo.get("issues", {}).get("totalCount", 0)
IssuesOf(repo) == Get(Get(repo, "issues", EmptyObj), "totalCount", JInt(0))

\* repo.get("pullRequests", {}).get("totalCount", 0)
PullsOf(repo) == Get(Get(repo, "pullRequests", EmptyObj), "totalCount", JInt(0))

\* The conditional expression of the commit count: the chain of .get calls
\* when defaultBranchRef and its target are truthy, else 0.
CommitsOf(repo) ==
  LET ref == Get(repo, "defaultBranchRef", JNull)
      tgt == Get(Get(repo, "defaultBranchRef", EmptyObj), "target", JNull)
  IN  IF ref.k = "raise" THEN Raised
      ELSE IF ~Truthy(ref) THEN JInt(0)
      ELSE IF tgt.k = "raise" THEN Raised
      ELSE IF ~Truthy(tgt) THEN JInt(0)
      ELSE Get(Get(Get(Get(repo, "defaultBranchRef", EmptyObj),
                       "target", EmptyObj), "history", EmptyObj),
               "totalCount", JInt(0))

\* repo.get("isPrivate", False), as the comprehension's filter reads it.
IsPrivateOf(repo) == Get(repo, "isPrivate", JBool(FALSE))

Metrics == {"stars", "forks", "issues", "pulls", "commits"}

MetricOf(m, repo) ==
  CASE m = "stars" -> StarsOf(repo)
    [] m = "forks" -> ForksOf(repo)
    [] m = "issues" -> IssuesOf(repo)
    [] m = "pulls" -> PullsOf(repo)
    [] m = "commits" -> CommitsOf(repo)

\* sum(<term> for repo in repos): Raised when a term raises or is not a
\* number (0 + None is a TypeError).  The sum is taken by halves, which
\* keeps the evaluation shallow on a collection of hundreds of records.
RECURSIVE PySum(_, _)
PySum(m, repos) ==
  IF repos = <<>> THEN JInt(0)
  ELSE IF Len(repos) = 1
       THEN LET t == MetricOf(m, repos[1])
            IN  IF t.k # "int" THEN Raised ELSE t
       ELSE LET half == Len(repos) \div 2
                left == PySum(m, SubSeq(repos, 1, half))
                right == PySum(m, SubSeq(repos, half + 1, Len(repos)))
            IN  IF left.k # "int" \/ right.k # "int" THEN Raised
                ELSE JInt(left.v + right.v)

\* [repo for repo in repos_data if (not) repo.get("isPrivate", False)]
FilterVisibility(repos, private) ==
  SelectSeq(repos, LAMBDA repo : Truthy(IsPrivateOf(repo)) = private)

\* A list comprehension over repos_data raises when an element is not a dict.
AllDicts(repos) == \A i \in 1..Len(repos) : repos[i].k = "obj"

ZeroStats ==
  [total_stars |-> 0, total_forks |-> 0, total_issues |-> 0, total_pulls |-> 0,
   total_commits |-> 0, public_repos |-> 0, private_repos |-> 0,
   public_stars |-> 0, private_stars |-> 0, public_forks |-> 0,
   private_forks |-> 0, public_issues |-> 0, private_issues |-> 0,
   public_pulls |-> 0, private_pulls |-> 0, public_commits |-> 0,
   private_commits |-> 0]

\* TotalSum taken over the public records only.
TotalSumPublicOnly(m, repos) == PySum(m, FilterVisibility(repos, FALSE))

\* The total of metric m: the sum over all of repos_data.
TotalSum(m, repos) == PySum(m, repos)

\* The try block of _calculate_repo_stats: Raised, or the CalculatedStats.
CalcStatsTry(repos) ==
  IF ~AllDicts(repos) THEN Raised
  ELSE
    LET pub == FilterVisibility(repos, FALSE)
        prv == FilterVisibility(repos, TRUE)
        tot(m) == TotalSum(m, repos)
        pu(m) == PySum(m, pub)
        pr(m) == PySum(m, prv)
    IN  IF \E m \in Metrics :
             tot(m).k # "int" \/ pu(m).k # "int" \/ pr(m).k # "int"
        THEN Raised
        ELSE [total_stars |-> tot("stars").v, total_forks |-> tot("forks").v,
              total_issues |-> tot("issues").v, total_pulls |-> tot("pulls").v,
              total_commits |-> tot("commits").v,
              public_repos |-> Len(pub), private_repos |-> Len(prv),
              public_stars |-> pu("stars").v, private_stars |-> pr("stars").v,
              public_forks |-> pu("forks").v, private_forks |-> pr("forks").v,
              public_issues |-> pu("issues").v, private_issues |-> pr("issues").v,
              public_pulls |-> pu("pulls").v, private_pulls |-> pr("pulls").v,
              public_commits |-> pu("commits").v,
              private_commits |-> pr("commits").v]

\* _calculate_repo_stats without its except branch.
CalculateRepoStatsNoExcept(repos) == CalcStatsTry(repos)

\* _calculate_repo_stats: the except branch returns the all-zero record.
CalculateRepoStats(repos) ==
  LET r == CalcStatsTry(repos)
  IN  IF r = Raised THEN ZeroStats ELSE r


\* ---------------------------------------------- language ranking, age
\* The tally dict of _extract_languages as the sequence of its items, in
\* insertion (first-seen) order: github_languages[lang] =
\* github_languages.get(lang, 0) + n.
RECURSIVE TallyAdd(_, _, _)
TallyAdd(tally, lang, n) ==
  IF tally = <<>> THEN <<[lang |-> lang, count |-> n]>>
  ELSE IF Head(tally).lang = lang
       THEN <<[lang |-> lang, count |-> Head(tally).count + n]>> \o Tail(tally)
       ELSE <<Head(tally)>> \o TallyAdd(Tail(tally), lang, n)

\* The tally of a collection from the tallies of its first and second part.
RECURSIVE TallyMerge(_, _)
TallyMerge(first, second) ==
  IF second = <<>> THEN first
  ELSE TallyMerge(TallyAdd(first, Head(second).lang, Head(second).count),
                  Tail(second))

\* The for loop of _extract_languages over repos_data: Raised, or the
\* tally as [k |-> "tally", items |-> ...].  Taken by halves, like PySum.
RECURSIVE TallyLanguages(_)
TallyLanguages(repos) ==
  IF repos = <<>> THEN [k |-> "tally", items |-> <<>>]
  ELSE IF Len(repos) = 1
       THEN LET lang_data == Get(repos[1], "primaryLanguage", JNull)
                name == Get(lang_data, "name", JNull)
            IN  IF lang_data.k = "raise" THEN Raised
                ELSE IF ~Truthy(lang_data) THEN [k |-> "tally", items |-> <<>>]
                ELSE IF name.k = "raise" THEN Raised
                ELSE IF ~Truthy(name) THEN [k |-> "tally", items |-> <<>>]
                ELSE [k |-> "tally", items |-> TallyAdd(<<>>, name.v, 1)]
       ELSE LET half == Len(repos) \div 2
                left == TallyLanguages(SubSeq(repos, 1, half))
                right == TallyLanguages(SubSeq(repos, half + 1, Len(repos)))
            IN  IF left = Raised \/ right = Raised THEN Raised
                ELSE [k |-> "tally",
                      items |-> TallyMerge(left.items, right.items)]

\* InsertByCount that puts item before the entries of the same count.
RECURSIVE InsertByCountBeforeTies(_, _)
InsertByCountBeforeTies(sorted, item) ==
  IF sorted = <<>> THEN <<item>>
  ELSE IF Head(sorted).count > item.count
       THEN <<Head(sorted)>> \o InsertByCountBeforeTies(Tail(sorted), item)
       ELSE <<item>> \o sorted

\* Insert item into a sequence sorted by descending count, after every
\* entry whose count is not smaller: sorted(..., reverse=True) is stable.
RECURSIVE InsertByCount(_, _)
InsertByCount(sorted, item) ==
  IF sorted = <<>> THEN <<item>>
  ELSE IF Head(sorted).count >= item.count
       THEN <<Head(sorted)>> \o InsertByCount(Tail(sorted), item)
       ELSE <<item>> \o sorted

RECURSIVE SortByCount(_, _)
SortByCount(items, acc) ==
  IF items = <<>> THEN acc
  ELSE SortByCount(Tail(items), InsertByCount(acc, Head(items)))

\* Default of the top_n parameter.
TopN == 5

\* seq[:n + 1]
TakeOneMore(seq, n) == IF Len(seq) <= n + 1 THEN seq ELSE SubSeq(seq, 1, n + 1)

\* seq[:n]
Take(seq, n) == IF Len(seq) <= n THEN seq ELSE SubSeq(seq, 1, n)

\* _extract_languages(repos_data, top_n): [] when the try block raises.
ExtractLanguages(repos, top_n) ==
  LET tally == TallyLanguages(repos)
  IN  IF tally = Raised THEN <<>>
      ELSE LET top == Take(SortByCount(tally.items, <<>>), top_n)
           IN  [i \in 1..Len(top) |-> top[i].lang]

\* A timestamp string: year is the calendar year datetime.fromisoformat
\* reads from it; a string without one does not parse.
JTime(y) == [k |-> "str", v |-> "iso", year |-> y]

\* CalculateAccountAge that reads the raw profile's key: it is absent from
\* the transformed dict and the default applies.
CalculateAccountAgeRawKey(ud, now_year) ==
  LET created_at == Get(ud, "createdAt", JTime(2020))
  IN  IF created_at.k # "str" THEN 0
      ELSE IF "year" \notin DOMAIN created_at THEN 0
      ELSE now_year - created_at.year

\* _calculate_account_age: 0 when created_at is not a parsable string.
CalculateAccountAge(ud, now_year) ==
  LET created_at == Get(ud, "created_at", JTime(2020))
  IN  IF created_at.k # "str" THEN 0
      ELSE IF "year" \notin DOMAIN created_at THEN 0
      ELSE now_year - created_at.year


\* --------------------------------------------------- streak calculator
\* A ContributionDay.
Day(date, count) == [date |-> date, count |-> count]

\* The StreakResult before any day is processed, with the running streak.
NoStreaks == [current_streak |-> 0, longest_streak |-> 0, temp_streak |-> 0]

\* Insert day into a sequence sorted ascending by date, after the days of
\* the same date.
RECURSIVE InsertByDate(_, _)
InsertByDate(sorted, day) ==
  IF sorted = <<>> THEN <<day>>
  ELSE IF Head(sorted).date <= day.date
       THEN <<Head(sorted)>> \o InsertByDate(Tail(sorted), day)
       ELSE <<day>> \o sorted

\* The series in its given order.
Unsorted(days, acc) == days

\* The series sorted ascending by date.
RECURSIVE SortByDate(_, _)
SortByDate(days, acc) ==
  IF days = <<>> THEN acc
  ELSE SortByDate(Tail(days), InsertByDate(acc, Head(days)))

Max(a, b) == IF a >= b THEN a ELSE b

\* StreakStep that leaves the longest streak as it was.
StreakStepKeepsLongest(st, day, ref) ==
  IF day.count > 0
  THEN [temp_streak |-> st.temp_streak + 1,
        longest_streak |-> st.longest_streak,
        current_streak |-> IF day.date <= ref THEN st.temp_streak + 1
                           ELSE st.current_streak]
  ELSE [temp_streak |-> 0,
        longest_streak |-> st.longest_streak,
        current_streak |-> IF day.date <= ref THEN 0 ELSE st.current_streak]

\* One day of the scan: a day with contributions extends the running
\* streak and the longest one, a day without resets the running streak;
\* current_streak follows on days on or before the reference date.
StreakStep(st, day, ref) ==
  IF day.count > 0
  THEN LET temp == st.temp_streak + 1
       IN  [temp_streak |-> temp,
            longest_streak |-> Max(st.longest_streak, temp),
            current_streak |-> IF day.date <= ref THEN temp
                               ELSE st.current_streak]
  ELSE [temp_streak |-> 0,
        longest_streak |-> st.longest_streak,
        current_streak |-> IF day.date <= ref THEN 0 ELSE st.current_streak]

\* The scan of the days in order.
RECURSIVE ScanDays(_, _, _)
ScanDays(days, st, ref) ==
  IF days = <<>> THEN st
  ELSE ScanDays(Tail(days), StreakStep(st, Head(days), ref), ref)

\* computeStreaks(series, referenceDate).
ComputeStreaks(days, ref) == ScanDays(SortByDate(days, <<>>), NoStreaks, ref)


\* ------------------------------------------------------------ the feed
\* page_size of _fetch_all_repositories: the "first" variable of a request.
page_size == 100

\* Repository records the server delivers, by kind; i is the position of
\* the record in its page.
NodeOf(kind, i) ==
  LET base == [k |-> "obj", name |-> JStr(ToString(i))]
  IN  CASE kind = "pub" ->
             base @@ [isPrivate |-> JBool(FALSE), stargazerCount |-> JInt(1),
                      forkCount |-> JInt(MaxCount), issues |-> CountObj(1),
                      pullRequests |-> CountObj(0),
                      defaultBranchRef |->
                        [k |-> "obj", target |->
                          [k |-> "obj", history |-> CountObj(MaxCount)]],
                      primaryLanguage |-> [k |-> "obj", name |-> JStr("Go")]]
        [] kind = "priv" ->
             base @@ [isPrivate |-> JBool(TRUE), stargazerCount |-> JInt(MaxCount),
                      forkCount |-> JInt(0), issues |-> CountObj(0),
                      pullRequests |-> CountObj(1),
                      defaultBranchRef |-> JNull,
                      primaryLanguage |-> JNull]
        [] kind = "nullIssues" ->
             base @@ [isPrivate |-> JBool(FALSE), stargazerCount |-> JInt(1),
                      forkCount |-> JInt(1), issues |-> JNull,
                      pullRequests |-> CountObj(1),
                      defaultBranchRef |-> JNull,
                      primaryLanguage |-> [k |-> "obj", name |-> JStr("Rust")]]
        [] kind = "nullStars" ->
             base @@ [isPrivate |-> JBool(TRUE), stargazerCount |-> JNull,
                      forkCount |-> JInt(1), issues |-> CountObj(1),
                      pullRequests |-> CountObj(1),
                      defaultBranchRef |-> JNull,
                      primaryLanguage |-> [k |-> "obj", name |-> JStr("Go")]]

\* A JSON list of n records of one kind.
JList(n, kind) == [k |-> "list", n |-> n, kind |-> kind]

\* The elements of a JSON list, in order.
Items(list) == [i \in 1..list.n |-> NodeOf(list.kind, i)]

\* The pages the server delivers: none longer than page_size.
PageContents ==
  {JList(0, "pub"), JList(1, "pub"), JList(1, "priv"), JList(page_size, "pub")}

\* A page that ends the collection may also hold a record whose issues
\* block is null, or one whose star count is null.
LastPageContents ==
  PageContents \cup {JList(1, "nullIssues"), JList(1, "nullStars")}

\* The cursor after the record at offset off; the server's cursors are
\* opaque to the client.
JCursor(off) == [k |-> "str", v |-> "cursor", off |-> off]

\* The endCursor of a page of n records requested with "after": null for
\* an empty page, else the position after its last record.
EndCursor(after, n) ==
  IF n = 0 THEN JNull
  ELSE JCursor((IF after = JNull THEN 0 ELSE after.off) + n)

PageInfo(hasNext, endCursor) ==
  [k |-> "obj", hasNextPage |-> JBool(hasNext), endCursor |-> endCursor]

\* A top-level errors array.
JErrors == [k |-> "list", n |-> 1, kind |-> "error"]

\* {"data": {"user": {"repositories": repositories}}}
ReposBody(repositories) ==
  [k |-> "obj", data |-> [k |-> "obj", user |->
     [k |-> "obj", repositories |-> repositories]]]

\* The well-formed bodies of a repositories page requested with "after".
GoodPageBodies(after) ==
  { ReposBody([k |-> "obj", nodes |-> l,
               pageInfo |-> PageInfo(TRUE, EndCursor(after, l.n))]) :
      l \in PageContents }
  \cup
  { ReposBody([k |-> "obj", nodes |-> l,
               pageInfo |-> PageInfo(FALSE, EndCursor(after, l.n))]) :
      l \in LastPageContents }

\* A body of either request that holds no usable data.user.
NoUserBodies ==
  { [k |-> "invalid"],
    JNull,
    EmptyObj,
    [k |-> "obj", message |-> JStr("Bad credentials")],
    [k |-> "obj", errors |-> JErrors],
    [k |-> "obj", errors |-> JErrors, data |-> JNull],
    [k |-> "obj", data |-> JNull],
    [k |-> "obj", data |-> EmptyObj],
    [k |-> "obj", data |-> [k |-> "obj", user |-> JNull]],
    [k |-> "obj", errors |-> JErrors,
     data |-> [k |-> "obj", user |-> JNull]] }

\* Bodies of a repositories page with data.user but a broken repositories
\* block.
BrokenPageBodies(after) ==
  { ReposBody(JNull),
    [k |-> "obj", data |->
       [k |-> "obj", user |-> [k |-> "obj", login |-> JStr("octo")]]],
    ReposBody([k |-> "obj", pageInfo |-> PageInfo(TRUE, EndCursor(after, 1))]),
    ReposBody([k |-> "obj", nodes |-> JNull,
               pageInfo |-> PageInfo(TRUE, EndCursor(after, 1))]),
    ReposBody([k |-> "obj", nodes |-> JList(1, "pub")]),
    ReposBody([k |-> "obj", nodes |-> JList(1, "pub"), pageInfo |-> JNull]),
    ReposBody([k |-> "obj", nodes |-> JList(1, "nullIssues"),
               pageInfo |-> JNull]),
    ReposBody([k |-> "obj", nodes |-> JList(1, "nullStars"),
               pageInfo |-> JNull]),
    ReposBody([k |-> "obj", nodes |-> JList(1, "pub"),
               pageInfo |-> [k |-> "obj", hasNextPage |-> JBool(TRUE)]]) }

\* A partial-success body: a top-level errors array beside data.user.
ErrorsWithDataBodies(after) ==
  { [k |-> "obj", errors |-> JErrors] @@
    ReposBody([k |-> "obj", nodes |-> JList(1, "pub"),
               pageInfo |-> PageInfo(h, EndCursor(after, 1))]) :
      h \in BOOLEAN }

Statuses == {200, 403, 404, 500}

\* What a request ends with: a transport exception (exc), or a response of
\* a status and a body.
Outcome(exc, status, body) == [exc |-> exc, status |-> status, body |-> body]

\* The bodies an error status comes with.
ErrorStatusOutcomes ==
  { Outcome(FALSE, st, b) :
      st \in Statuses \ {200},
      b \in {[k |-> "invalid"], JNull,
             [k |-> "obj", message |-> JStr("Bad credentials")]} }

PageOutcomes(after) ==
  {Outcome(TRUE, 0, JNull)}
  \cup { Outcome(FALSE, 200, b) :
           b \in GoodPageBodies(after) \cup NoUserBodies
                 \cup BrokenPageBodies(after) \cup ErrorsWithDataBodies(after) }
  \cup ErrorStatusOutcomes

\* The user object of a profile response, by kind.
ProfileOf(kind) ==
  LET base == [k |-> "obj", login |-> JStr("octo"),
               followers |-> CountObj(MaxCount), following |-> CountObj(1),
               repositories |-> CountObj(MaxCount)]
  IN  CASE kind = "full" ->
             base @@ [name |-> JStr("Octo"), bio |-> JStr(""),
                      location |-> JStr("Kolkata"), company |-> JStr("acme"),
                      websiteUrl |-> JStr("https://octo.dev"),
                      gists |-> CountObj(1), createdAt |-> JTime(2020),
                      avatarUrl |-> JStr("https://avatars/octo")]
        [] kind = "sparse" ->
             base @@ [name |-> JNull, bio |-> JNull, location |-> JNull,
                      company |-> JNull, websiteUrl |-> JNull,
                      gists |-> CountObj(0), createdAt |-> JNull,
                      avatarUrl |-> JNull]
        [] kind = "nullGists" ->
             base @@ [name |-> JStr("Octo"), bio |-> JNull, location |-> JNull,
                      company |-> JNull, websiteUrl |-> JNull,
                      gists |-> JNull, createdAt |-> JTime(2019),
                      avatarUrl |-> JNull]

ProfileKinds == {"full", "nullGists"}

ProfileOutcomes ==
  {Outcome(TRUE, 0, JNull)}
  \cup { Outcome(FALSE, 200, b) :
           b \in NoUserBodies
                 \cup { [k |-> "obj", data |->
                           [k |-> "obj", user |-> ProfileOf(kind)]] :
                          kind \in ProfileKinds }
                 \cup { [k |-> "obj", errors |-> JErrors, data |->
                           [k |-> "obj", user |-> ProfileOf("full")]] } }
  \cup ErrorStatusOutcomes

\* The calendar years datetime.now() falls in.
CurrentYears == {2026}

\* The configured max_repos values (the constructor rejects max_repos <= 0).
MaxReposValues == {1, 150}

\* The max_repos values of the runs whose feed never ends.
LiveMaxReposValues == {1, 2}


\* ------------------------------------------------------ the response
\* await response.json(): raises on a body that is not JSON.
Json(o) == IF o.body.k = "invalid" THEN Raised ELSE o.body

\* The try block of _handle_api_response.
HandleApiResponseTry(o) ==
  IF o.status # 200
  THEN LET error_data == Json(o)
       IN  IF error_data = Raised THEN Raised
           ELSE IF Get(error_data, "message", JStr("Unknown error")) = Raised
                THEN Raised
                ELSE NoneVal
  ELSE Json(o)

\* _handle_api_response without its except branch.
HandleApiResponseNoExcept(o) == HandleApiResponseTry(o)

\* _handle_api_response: the except branch returns None.
HandleApiResponse(o) ==
  LET r == HandleApiResponseTry(o)
  IN  IF r = Raised THEN NoneVal ELSE r

\* result and "data" in result and result["data"]["user"]: "yes", "no", or
\* "raise" when the subscript raises.
HasUser(result) ==
  IF ~Truthy(result) THEN "no"
  ELSE IF "data" \notin DOMAIN result THEN "no"
  ELSE LET user == Sub(result["data"], "user")
       IN  IF user = Raised THEN "raise"
           ELSE IF Truthy(user) THEN "yes" ELSE "no"

\* ------------------------------------------------- one loop iteration
\* AtCap off by one: the cap counts as reached only above max_repos.
AtCapOffByOne(repos, max) == Len(repos) > max

\* len(all_repos) >= self.max_repos: the comparison both cap checks of the
\* loop make (the while condition negates it).
AtCap(repos, max) == Len(repos) >= max

\* The while condition of _fetch_all_repositories.
LoopCondition(has_next, repos, max) == Truthy(has_next) /\ ~AtCap(repos, max)

\* The end of a successful iteration: break at the cap, else loop.
CapExit(repos, max) == IF AtCap(repos, max) THEN "break" ELSE "continue"

\* The try block of one iteration, from the response on: the locals after
\* it and how it is left ("continue", "break", or "raise" with the
\* assignments made before the exception).
PageTry(o, repos, has_next, cur, max) ==
  LET st(r, h, c, e) ==
        [all_repos |-> r, has_next_page |-> h, cursor |-> c, exit |-> e]
      keep(e) == st(repos, has_next, cur, e)
      result == IF o.exc THEN Raised ELSE HandleApiResponse(o)
  IN
  IF result = Raised THEN keep("raise")
  ELSE IF HasUser(result) = "raise" THEN keep("raise")
  ELSE IF HasUser(result) = "no" THEN keep("break")
  ELSE
    LET repos_data == Sub(result["data"]["user"], "repositories")
        nodes == IF repos_data = Raised THEN Raised ELSE Sub(repos_data, "nodes")
    IN
    IF nodes = Raised THEN keep("raise")
    ELSE IF nodes.k # "list" THEN keep("raise")
    ELSE
      LET extended == repos \o Items(nodes)
          page_info == Sub(repos_data, "pageInfo")
          hnp == IF page_info = Raised THEN Raised
                 ELSE Sub(page_info, "hasNextPage")
          end == IF page_info = Raised THEN Raised
                 ELSE Sub(page_info, "endCursor")
      IN
      IF hnp = Raised THEN st(extended, has_next, cur, "raise")
      ELSE IF end = Raised THEN st(extended, hnp, cur, "raise")
      ELSE st(extended, hnp, end, CapExit(extended, max))

\* PageIteration that leaves the cursor of the previous request in place.
PageIterationStaleCursor(o, repos, has_next, cur, max) ==
  LET t == PageTry(o, repos, has_next, cur, max)
  IN  [t EXCEPT !.cursor = cur,
                !.exit = IF t.exit = "raise" THEN "break" ELSE t.exit]

\* PageIteration that puts the page before the records fetched so far.
PageIterationPrepends(o, repos, has_next, cur, max) ==
  LET t == PageTry(o, repos, has_next, cur, max)
      page == SubSeq(t.all_repos, Len(repos) + 1, Len(t.all_repos))
  IN  [t EXCEPT !.all_repos = page \o repos,
                !.exit = IF t.exit = "raise" THEN "break" ELSE t.exit]

\* PageIteration that goes on to the next iteration after an exception.
PageIterationRetries(o, repos, has_next, cur, max) ==
  LET t == PageTry(o, repos, has_next, cur, max)
  IN  IF t.exit = "raise" THEN [t EXCEPT !.exit = "continue"] ELSE t

\* PageIteration without its except branch.
PageIterationNoExcept(o, repos, has_next, cur, max) ==
  PageTry(o, repos, has_next, cur, max)

\* The iteration with its except branch: an exception breaks the loop.
PageIteration(o, repos, has_next, cur, max) ==
  LET t == PageTry(o, repos, has_next, cur, max)
  IN  IF t.exit = "raise" THEN [t EXCEPT !.exit = "break"] ELSE t

\* ------------------------------------------------------------ assembly
\* TransformGraphqlUserData that defaults the optional strings to "".
TransformGraphqlUserDataEmptyDefaults(user, repos) ==
  LET gists == Get(Get(user, "gists", EmptyObj), "totalCount", JInt(0))
      followers == Get(Get(user, "followers", EmptyObj), "totalCount", JInt(0))
      following == Get(Get(user, "following", EmptyObj), "totalCount", JInt(0))
  IN  IF gists = Raised \/ followers = Raised \/ following = Raised THEN Raised
      ELSE [k |-> "obj",
            login |-> Get(user, "login", JNull),
            name |-> Get(user, "name", JStr("")),
            bio |-> Get(user, "bio", JStr("")),
            location |-> Get(user, "location", JStr("")),
            company |-> Get(user, "company", JStr("")),
            blog |-> Get(user, "websiteUrl", JStr("")),
            public_repos |-> JInt(Len(repos)),
            public_gists |-> gists,
            followers |-> followers,
            following |-> following,
            created_at |-> Get(user, "createdAt", JStr("")),
            avatar_url |-> Get(user, "avatarUrl", JStr("")),
            repositories |-> repos]

\* The dict _transform_graphql_user_data returns for user_data whose
\* "repositories" was replaced by {"nodes": all_repos}; Raised when a count
\* block is not a dict.
TransformGraphqlUserData(user, repos) ==
  LET gists == Get(Get(user, "gists", EmptyObj), "totalCount", JInt(0))
      followers == Get(Get(user, "followers", EmptyObj), "totalCount", JInt(0))
      following == Get(Get(user, "following", EmptyObj), "totalCount", JInt(0))
  IN  IF gists = Raised \/ followers = Raised \/ following = Raised THEN Raised
      ELSE [k |-> "obj",
            login |-> Get(user, "login", JNull),
            name |-> Get(user, "name", JNull),
            bio |-> Get(user, "bio", JNull),
            location |-> Get(user, "location", JNull),
            company |-> Get(user, "company", JNull),
            blog |-> Get(user, "websiteUrl", JNull),
            public_repos |-> JInt(Len(repos)),
            public_gists |-> gists,
            followers |-> followers,
            following |-> following,
            created_at |-> Get(user, "createdAt", JNull),
            avatar_url |-> Get(user, "avatarUrl", JNull),
            repositories |-> repos]

\* The GitHubUser of _build_github_stats_model.
BuildUser(ud) ==
  [username |-> Get(ud, "login", JStr("")),
   name |-> Get(ud, "name", JNull),
   bio |-> Get(ud, "bio", JNull),
   location |-> Get(ud, "location", JNull),
   company |-> Get(ud, "company", JNull),
   blog |-> Get(ud, "blog", JNull),
   public_repos |-> Get(ud, "public_repos", JInt(0)),
   public_gists |-> Get(ud, "public_gists", JInt(0)),
   followers |-> Get(ud, "followers", JInt(0)),
   following |-> Get(ud, "following", JInt(0)),
   created_at |-> Get(ud, "created_at", JNull),
   avatar_url |-> Get(ud, "avatar_url", JNull)]

\* repo.get("primaryLanguage", {}).get("name") if repo.get("primaryLanguage")
\* else None
PrimaryLanguageOf(repo) ==
  LET lang == Get(repo, "primaryLanguage", JNull)
  IN  IF lang = Raised THEN Raised
      ELSE IF ~Truthy(lang) THEN JNull
      ELSE Get(Get(repo, "primaryLanguage", EmptyObj), "name", JNull)

\* The GitHubRepository built from one record.
BuildRepo(repo) ==
  [name |-> Get(repo, "name", JStr("")),
   is_private |-> IsPrivateOf(repo),
   stargazer_count |-> StarsOf(repo),
   fork_count |-> ForksOf(repo),
   issues_count |-> IssuesOf(repo),
   pull_requests_count |-> PullsOf(repo),
   commits_count |-> CommitsOf(repo),
   primary_language |-> PrimaryLanguageOf(repo)]

RepoFields ==
  {"name", "is_private", "stargazer_count", "fork_count", "issues_count",
   "pull_requests_count", "commits_count", "primary_language"}

\* _build_github_stats_model: Raised when building a repository raises.
BuildGithubStatsModel(ud, stats, langs, age, repos) ==
  LET models == [i \in 1..Len(repos) |-> BuildRepo(repos[i])]
  IN  IF \E i \in 1..Len(repos) : \E f \in RepoFields : models[i][f] = Raised
      THEN Raised
      ELSE [k |-> "GitHubStats", user |-> BuildUser(ud), stats |-> stats,
            github_languages |-> langs, account_age_years |-> age,
            repositories |-> models]

\* ReposData that reads a key the transformed dict does not have.
ReposDataWrongKey(ud) == Get(ud, "nodes", <<>>)

\* repos_data of get_github_stats: user_data.get("repositories", []), and
\* [] when that is empty.
ReposData(ud) == Get(ud, "repositories", <<>>)

\* get_github_stats from the built model on: the except branch returns
\* None.
GetGithubStatsReturn(built) == IF built = Raised THEN NoneVal ELSE built

\* --------------------------------------------------------------- state
VARIABLES
  pc,             \* where get_github_stats is
  max_repos,      \* self.max_repos
  now_year,       \* datetime.now().year
  top_n,          \* the top_n parameter of _extract_languages
  series,         \* the contribution days given to computeStreaks
  reference_date, \* its referenceDate
  streaks,        \* the StreakResult
  profile,        \* result["data"]["user"] of the profile request
  all_repos,      \* locals of _fetch_all_repositories
  cursor,
  has_next_page,
  user_data,      \* what _fetch_user_data returned
  calculated_stats,  \* locals of get_github_stats
  github_languages,
  account_age,
  result,         \* what get_github_stats returned
  inflight,       \* requests sent and not yet answered
  requests,       \* history: the page requests sent
  responses,      \* history: what each page request ended with
  profile_outcome,\* history: what the profile request ended with
  escaped,        \* history: the functions an exception was raised out of
  environ,        \* os.environ when main.py is run
  env,            \* the attributes of EnvironmentManagerService
  login,          \* username in main
  main_pc,        \* where main.py is
  stdout,         \* what main.py has printed
  tasks,          \* the coroutines asyncio.gather was given
  uncaught        \* the exception that ended main.py

\* The state of the streak calculator.
calendar == <<series, reference_date, streaks>>

\* The state of the program main.py.
program == <<environ, env, login, main_pc, stdout, tasks, uncaught>>

vars ==
  <<pc, max_repos, now_year, top_n, calendar, program, profile, all_repos, cursor, has_next_page,
    user_data, calculated_stats, github_languages, account_age, result,
    inflight, requests, responses, profile_outcome, escaped>>

\* The locals of get_github_stats that hold the reductions.
reductions == <<calculated_stats, github_languages, account_age>>

history == <<requests, responses>>

\* How the response to a request is classed by what it is, not by what the
\* client does with it.
FailureKind(o, paged) ==
  IF o.exc THEN "transport"
  ELSE IF o.status # 200 THEN "status"
  ELSE IF o.body.k = "invalid" THEN "malformed"
  ELSE IF o.body.k # "obj" \/ "data" \notin DOMAIN o.body THEN "no_user"
  ELSE IF o.body.data.k # "obj" \/ "user" \notin DOMAIN o.body.data THEN "no_user"
  ELSE IF ~Truthy(o.body.data.user) THEN "no_user"
  ELSE IF ~paged THEN "none"
  ELSE LET u == o.body.data.user
       IN  IF "repositories" \notin DOMAIN u THEN "malformed"
           ELSE IF u.repositories.k # "obj" THEN "malformed"
           ELSE IF "nodes" \notin DOMAIN u.repositories
                   \/ "pageInfo" \notin DOMAIN u.repositories THEN "malformed"
           ELSE IF u.repositories.nodes.k # "list"
                   \/ u.repositories.pageInfo.k # "obj" THEN "malformed"
           ELSE IF {"hasNextPage", "endCursor"}
                     \subseteq DOMAIN u.repositories.pageInfo
                THEN "none" ELSE "malformed"

\* The node list a response body carries under data.user.repositories, or
\* null.
NodesIn(o) ==
  IF FailureKind(o, FALSE) # "none" THEN JNull
  ELSE LET u == o.body.data.user
       IN  IF "repositories" \in DOMAIN u
              /\ u.repositories.k = "obj"
              /\ "nodes" \in DOMAIN u.repositories
              /\ u.repositories.nodes.k = "list"
           THEN u.repositories.nodes ELSE JNull

\* What the history keeps of a page response, to which the step adds what
\* the client took from it: the records appended, and whether its pageInfo
\* changed the loop's locals.
Digest(o) ==
  [fail |-> FailureKind(o, TRUE),
   errors |-> (~o.exc /\ o.body.k = "obj" /\ "errors" \in DOMAIN o.body),
   nodes |-> NodesIn(o),
   pageInfo |-> IF FailureKind(o, TRUE) = "none"
                THEN o.body.data.user.repositories.pageInfo ELSE JNull]

\* An environment variable that is not set.
Unset == [k |-> "unset"]

\* The state of main.py when the service is used without it.
NoProgram ==
  /\ environ = [INPUT_GH_TOKEN |-> JStr("ghp"), INPUT_WAKATIME_API_KEY |-> JStr("waka"),
                INPUT_THEME_NAME |-> Unset]
  /\ env = NoneVal
  /\ login = ""
  /\ main_pc = "none"
  /\ stdout = <<>>
  /\ tasks = {}
  /\ uncaught = "none"

\* The state when get_github_stats is called on a service constructed with
\* one of the max_repos values.
InitWith(maxes) ==
  /\ pc = "start"
  /\ max_repos \in maxes
  /\ now_year \in CurrentYears
  /\ top_n = TopN
  /\ series = <<>>
  /\ reference_date = 0
  /\ streaks = NoStreaks
  /\ profile = JNull
  /\ all_repos = <<>>
  /\ cursor = JNull
  /\ has_next_page = JBool(TRUE)
  /\ user_data = NoneVal
  /\ calculated_stats = NoneVal
  /\ github_languages = <<>>
  /\ account_age = 0
  /\ result = NoneVal
  /\ inflight = 0
  /\ requests = <<>>
  /\ responses = <<>>
  /\ profile_outcome = "none"
  /\ escaped = {}
  /\ NoProgram

Init == InitWith(MaxReposValues)

\* get_github_stats opens the session; _fetch_user_data posts the profile
\* query.
ProfileRequest ==
  /\ pc = "start"
  /\ pc' = "profile_wait"
  /\ inflight' = inflight + 1
  /\ UNCHANGED <<max_repos, now_year, top_n, calendar, program, profile, all_repos, cursor,
                 has_next_page, user_data, reductions, result, requests,
                 responses, profile_outcome, escaped>>

\* The profile request ends with o: with data.user the pagination starts,
\* otherwise _fetch_user_data returns None and so does get_github_stats.
ProfileResponse(o) ==
  /\ pc = "profile_wait"
  /\ inflight' = inflight - 1
  /\ profile_outcome' = FailureKind(o, FALSE)
  /\ LET r == IF o.exc THEN Raised ELSE HandleApiResponse(o)
         has == IF r = Raised THEN "raise" ELSE HasUser(r)
     IN  /\ escaped' = escaped \cup (IF ~o.exc /\ r = Raised THEN {"handler"} ELSE {})
         /\ IF has = "yes"
            THEN /\ profile' = r["data"]["user"]
                 /\ all_repos' = <<>>
                 /\ cursor' = JNull
                 /\ has_next_page' = JBool(TRUE)
                 /\ pc' = "loop"
            ELSE /\ pc' = "done"
                 /\ UNCHANGED <<profile, all_repos, cursor, has_next_page>>
  /\ user_data' = NoneVal
  /\ result' = NoneVal
  /\ UNCHANGED <<max_repos, now_year, top_n, calendar, program, reductions, requests, responses>>

\* The while condition holds: post the page query with the cursor.
PageRequest(log) ==
  /\ pc = "loop"
  /\ LoopCondition(has_next_page, all_repos, max_repos)
  /\ log => Len(requests) < MaxPages
  /\ pc' = "page_wait"
  /\ inflight' = inflight + 1
  /\ requests' =
       IF log
       THEN Append(requests, [after |-> cursor, first |-> page_size,
                              have |-> Len(all_repos)])
       ELSE requests
  /\ UNCHANGED <<max_repos, now_year, top_n, calendar, program, profile, all_repos, cursor,
                 has_next_page, user_data, reductions, result, responses,
                 profile_outcome, escaped>>

\* The while condition fails: the loop is left.
LoopExit ==
  /\ pc = "loop"
  /\ ~LoopCondition(has_next_page, all_repos, max_repos)
  /\ pc' = "fetched"
  /\ UNCHANGED <<max_repos, now_year, top_n, calendar, program, profile, all_repos, cursor,
                 has_next_page, user_data, reductions, result, inflight,
                 requests, responses, profile_outcome, escaped>>

\* The page request ends with o.  An exception raised out of
\* _fetch_all_repositories is caught in _fetch_user_data, which returns
\* None.
PageResponse(log, o) ==
  /\ pc = "page_wait"
  /\ inflight' = inflight - 1
  /\ LET t == PageIteration(o, all_repos, has_next_page, cursor, max_repos)
         handlerRaised == ~o.exc /\ HandleApiResponse(o) = Raised
         seen == Digest(o) @@
                 [appended |-> Len(t.all_repos) - Len(all_repos),
                  usedPageInfo |-> (t.has_next_page # has_next_page
                                    \/ t.cursor # cursor)]
     IN  /\ responses' = IF log THEN Append(responses, seen) ELSE responses
         /\ all_repos' = t.all_repos
         /\ has_next_page' = t.has_next_page
         /\ cursor' = t.cursor
         /\ escaped' = escaped
               \cup (IF handlerRaised THEN {"handler"} ELSE {})
               \cup (IF t.exit = "raise" THEN {"fetcher"} ELSE {})
         /\ pc' = CASE t.exit = "continue" -> "loop"
                    [] t.exit = "break" -> "fetched"
                    [] t.exit = "raise" -> "done"
  /\ UNCHANGED <<max_repos, now_year, top_n, calendar, program, profile, user_data, reductions,
                 result, requests, profile_outcome>>

\* _fetch_user_data stores the collection in user_data and returns the
\* transformed dict, or None when the transformation raises.
ReturnUserData ==
  /\ pc = "fetched"
  /\ LET ud == TransformGraphqlUserData(profile, all_repos)
     IN  IF ud = Raised
         THEN /\ user_data' = NoneVal
              /\ pc' = "done"
         ELSE /\ user_data' = ud
              /\ pc' = "reduce"
  /\ UNCHANGED <<max_repos, now_year, top_n, calendar, program, profile, all_repos, cursor,
                 has_next_page, reductions, result, inflight, requests,
                 responses, profile_outcome, escaped>>

\* get_github_stats takes repos_data from user_data and computes the
\* three reductions over it.
Reduce ==
  /\ pc = "reduce"
  /\ calculated_stats' = CalculateRepoStats(ReposData(user_data))
  /\ github_languages' = ExtractLanguages(ReposData(user_data), top_n)
  /\ account_age' = CalculateAccountAge(user_data, now_year)
  /\ pc' = "build"
  /\ UNCHANGED <<max_repos, now_year, top_n, calendar, program, profile, all_repos, cursor,
                 has_next_page, user_data, result, inflight, requests,
                 responses, profile_outcome, escaped>>

\* get_github_stats builds the snapshot and returns it.
Build ==
  /\ pc = "build"
  /\ LET built == BuildGithubStatsModel(user_data, calculated_stats,
                                        github_languages, account_age,
                                        ReposData(user_data))
         ret == GetGithubStatsReturn(built)
     IN  /\ result' = IF ret = Raised THEN NoneVal ELSE ret
         /\ escaped' = escaped
               \cup (IF ret = Raised THEN {"get_github_stats"} ELSE {})
  /\ pc' = "done"
  /\ UNCHANGED <<max_repos, now_year, top_n, calendar, program, profile, all_repos, cursor,
                 has_next_page, user_data, reductions, inflight, requests,
                 responses, profile_outcome>>

Next ==
  \/ ProfileRequest
  \/ \E o \in ProfileOutcomes : ProfileResponse(o)
  \/ PageRequest(TRUE)
  \/ LoopExit
  \/ \E o \in PageOutcomes(cursor) : PageResponse(TRUE, o)
  \/ ReturnUserData
  \/ Reduce
  \/ Build

Spec == Init /\ [][Next]_vars


\* ------------------------------------------- the feed that never ends
\* The same steps without the history, which would grow for ever, and
\* without the bound on the number of requests.
NextLive ==
  \/ ProfileRequest
  \/ \E o \in ProfileOutcomes : ProfileResponse(o)
  \/ PageRequest(FALSE)
  \/ LoopExit
  \/ \E o \in PageOutcomes(cursor) : PageResponse(FALSE, o)
  \/ ReturnUserData
  \/ Reduce
  \/ Build

\* Every request ends (with a response, or with an exception at the
\* session's timeout) and the coroutine runs on when it does: each step of
\* the fetch is taken when it stays possible.
FetchFairness ==
  /\ WF_vars(ProfileRequest)
  /\ WF_vars(\E o \in ProfileOutcomes : ProfileResponse(o))
  /\ WF_vars(PageRequest(FALSE))
  /\ WF_vars(LoopExit)
  /\ WF_vars(\E o \in PageOutcomes(cursor) : PageResponse(FALSE, o))

LiveSpec == InitWith(LiveMaxReposValues) /\ [][NextLive]_vars /\ FetchFairness

\* --------------------------------------- reductions over a collection
\* Longest collection the reductions are run on.
MaxLen == 2

\* A well-formed record with every count equal to c.
PlainRepo(private, c) ==
  [k |-> "obj", name |-> JStr("r"), isPrivate |-> JBool(private),
   stargazerCount |-> JInt(c), forkCount |-> JInt(c),
   issues |-> CountObj(c), pullRequests |-> CountObj(c),
   defaultBranchRef |->
     [k |-> "obj", target |-> [k |-> "obj", history |-> CountObj(c)]],
   primaryLanguage |-> [k |-> "obj", name |-> JStr("Go")]]

\* rec without the key.
Without(rec, key) == [f \in DOMAIN rec \ {key} |-> rec[f]]

\* rec with the key set to val.
With(rec, key, val) == [f \in DOMAIN rec \cup {key} |-> IF f = key THEN val ELSE rec[f]]

\* The records a collection is drawn from: well-formed ones of both
\* visibilities, and ones with a key absent, null or of another shape.
AggRepos ==
  { PlainRepo(p, c) : p \in BOOLEAN, c \in 0..MaxCount }
  \cup { Without(PlainRepo(FALSE, 1), key) :
           key \in {"isPrivate", "stargazerCount", "forkCount", "issues",
                    "pullRequests", "defaultBranchRef", "primaryLanguage"} }
  \cup { With(PlainRepo(p, 1), "isPrivate", JNull) : p \in {TRUE} }
  \cup { With(PlainRepo(TRUE, 1), key, JNull) :
           key \in {"stargazerCount", "issues", "defaultBranchRef",
                    "primaryLanguage"} }
  \cup { With(PlainRepo(TRUE, MaxCount), "defaultBranchRef", ref) :
           ref \in { [k |-> "obj", target |-> JNull],
                     [k |-> "obj", target |-> EmptyObj],
                     [k |-> "obj", target |-> [k |-> "obj", oid |-> JStr("abc")]],
                     [k |-> "obj", target |-> [k |-> "obj", history |-> JNull]] } }
  \cup { With(PlainRepo(FALSE, MaxCount), "issues", EmptyObj),
         With(PlainRepo(FALSE, MaxCount), "primaryLanguage",
              [k |-> "obj", name |-> JStr("Rust")]),
         JNull }

\* The collections of at most n records.
RECURSIVE Collections(_)
Collections(n) ==
  IF n = 0 THEN {<<>>}
  ELSE Collections(n - 1)
       \cup { Append(c, r) : c \in { x \in Collections(n - 1) : Len(x) = n - 1 },
                             r \in AggRepos }

\* get_github_stats after _fetch_user_data returned the collection repos
\* for a full profile.
InitAgg ==
  /\ pc = "reduce"
  /\ max_repos = 150
  /\ now_year \in CurrentYears
  /\ top_n = TopN
  /\ series = <<>>
  /\ reference_date = 0
  /\ streaks = NoStreaks
  /\ profile = ProfileOf("full")
  /\ all_repos \in Collections(MaxLen)
  /\ cursor = JNull
  /\ has_next_page = JBool(FALSE)
  /\ user_data = TransformGraphqlUserData(profile, all_repos)
  /\ calculated_stats = NoneVal
  /\ github_languages = <<>>
  /\ account_age = 0
  /\ result = NoneVal
  /\ inflight = 0
  /\ requests = <<>>
  /\ responses = <<>>
  /\ profile_outcome = "none"
  /\ escaped = {}
  /\ NoProgram

NextAgg == Reduce \/ Build

SpecAgg == InitAgg /\ [][NextAgg]_vars

\* ------------------------------------------------ the language ranking
\* Longest collection the ranking is run on, and largest top_n.
MaxRank == 4
MaxTop == 3

\* A record with the primary language lang.
LangRepo(lang) ==
  [k |-> "obj", name |-> JStr("r"),
   primaryLanguage |-> [k |-> "obj", name |-> JStr(lang)]]

\* The records the ranked collections are drawn from: three languages, and
\* records without a primary language (null, or the key absent).
RankRepos ==
  { LangRepo(lang) : lang \in {"A", "B", "C"} }
  \cup { [k |-> "obj", name |-> JStr("r"), primaryLanguage |-> JNull],
         [k |-> "obj", name |-> JStr("r")] }

\* The collections of at most n such records.
RECURSIVE RankCollections(_)
RankCollections(n) ==
  IF n = 0 THEN {<<>>}
  ELSE RankCollections(n - 1)
       \cup { Append(c, r) : c \in { x \in RankCollections(n - 1) : Len(x) = n - 1 },
                             r \in RankRepos }

\* A call _extract_languages(repos_data, top_n).
InitRank ==
  /\ pc = "rank"
  /\ max_repos = 150
  /\ now_year \in CurrentYears
  /\ top_n \in 0..MaxTop
  /\ series = <<>>
  /\ reference_date = 0
  /\ streaks = NoStreaks
  /\ profile = JNull
  /\ all_repos \in RankCollections(MaxRank)
  /\ cursor = JNull
  /\ has_next_page = JBool(FALSE)
  /\ user_data = NoneVal
  /\ calculated_stats = NoneVal
  /\ github_languages = <<>>
  /\ account_age = 0
  /\ result = NoneVal
  /\ inflight = 0
  /\ requests = <<>>
  /\ responses = <<>>
  /\ profile_outcome = "none"
  /\ escaped = {}
  /\ NoProgram

\* _extract_languages returns.
RankLanguages ==
  /\ pc = "rank"
  /\ github_languages' = ExtractLanguages(all_repos, top_n)
  /\ pc' = "ranked"
  /\ UNCHANGED <<max_repos, now_year, top_n, calendar, program, profile, all_repos, cursor,
                 has_next_page, user_data, calculated_stats, account_age,
                 result, inflight, requests, responses, profile_outcome,
                 escaped>>

NextRank == RankLanguages

SpecRank == InitRank /\ [][NextRank]_vars
\* ------------------------------------------------------- the profile
\* The optional strings of the raw profile.
OptionalKeys ==
  {"name", "bio", "location", "company", "websiteUrl", "createdAt", "avatarUrl"}

\* The years of the creation timestamps, and the years datetime.now()
\* falls in.
CreationYears == {2019, 2021, 2026}
ProfileCurrentYears == {2026, 2027}

\* Raw profiles: the full one, with one optional key absent, null or empty,
\* with other creation timestamps, and the one with every option null.
ProfileVariants ==
  {ProfileOf("full"), ProfileOf("sparse")}
  \cup { Without(ProfileOf("full"), key) : key \in OptionalKeys }
  \cup { With(ProfileOf("full"), key, JNull) : key \in OptionalKeys }
  \cup { With(ProfileOf("full"), key, JStr("")) : key \in OptionalKeys }
  \cup { With(ProfileOf("full"), "createdAt", JTime(y)) : y \in CreationYears }

\* _fetch_user_data after the pagination returned no repositories for one
\* of the raw profiles.
InitProfile ==
  /\ pc = "fetched"
  /\ max_repos = 150
  /\ now_year \in ProfileCurrentYears
  /\ top_n = TopN
  /\ series = <<>>
  /\ reference_date = 0
  /\ streaks = NoStreaks
  /\ profile \in ProfileVariants
  /\ all_repos = <<>>
  /\ cursor = JNull
  /\ has_next_page = JBool(FALSE)
  /\ user_data = NoneVal
  /\ calculated_stats = NoneVal
  /\ github_languages = <<>>
  /\ account_age = 0
  /\ result = NoneVal
  /\ inflight = 0
  /\ requests = <<>>
  /\ responses = <<>>
  /\ profile_outcome = "none"
  /\ escaped = {}
  /\ NoProgram

NextProfile == ReturnUserData \/ Reduce \/ Build

SpecProfile == InitProfile /\ [][NextProfile]_vars

\* ------------------------------------------------------ the streaks
\* Longest series, and last calendar date of a series.
MaxDays == 3
MaxDate == 3

\* The contribution days a series is drawn from.
Days == { Day(date, count) : date \in 1..MaxDate, count \in {0, 1} }

\* The series of at most n days, in any order, duplicates allowed.
RECURSIVE SeriesOf(_)
SeriesOf(n) ==
  IF n = 0 THEN {<<>>}
  ELSE SeriesOf(n - 1)
       \cup { Append(c, d) : c \in { x \in SeriesOf(n - 1) : Len(x) = n - 1 },
                             d \in Days }

\* A call computeStreaks(series, referenceDate).
InitStreak ==
  /\ pc = "streaks"
  /\ max_repos = 150
  /\ now_year \in CurrentYears
  /\ top_n = TopN
  /\ series \in SeriesOf(MaxDays)
  /\ reference_date \in 0..MaxDate
  /\ streaks = NoStreaks
  /\ profile = JNull
  /\ all_repos = <<>>
  /\ cursor = JNull
  /\ has_next_page = JBool(FALSE)
  /\ user_data = NoneVal
  /\ calculated_stats = NoneVal
  /\ github_languages = <<>>
  /\ account_age = 0
  /\ result = NoneVal
  /\ inflight = 0
  /\ requests = <<>>
  /\ responses = <<>>
  /\ profile_outcome = "none"
  /\ escaped = {}
  /\ NoProgram

\* computeStreaks returns.
StreaksComputed ==
  /\ pc = "streaks"
  /\ streaks' = ComputeStreaks(series, reference_date)
  /\ pc' = "streaks_done"
  /\ UNCHANGED <<max_repos, now_year, top_n, series, reference_date, program, profile,
                 all_repos, cursor, has_next_page, user_data, reductions,
                 result, inflight, requests, responses, profile_outcome,
                 escaped>>

NextStreak == StreaksComputed

SpecStreak == InitStreak /\ [][NextStreak]_vars

\* ---------------------------------------------------------------------
\* main.py: the program that constructs the services and gathers the three
\* fetches.

\* What an environment variable can hold when the program is run.
TokenValues == {Unset, JStr(""), JStr("ghp")}
KeyValues == {Unset, JStr(""), JStr("waka")}
ThemeValues == {Unset, JStr("Aco"), JStr("Dracula")}

\* What self.user.login gives: a login, or the exception of a refused token.
Logins == {"octo", "mona", "hubot"}
LoginOutcomes == Logins \cup {"GithubException"}

\* os.getenv(name, default).
Getenv(name, default) ==
  IF environ[name] = Unset THEN default ELSE environ[name]

\* The class body of EnvironmentManagerService: environ[...] raises KeyError
\* for a required variable that is not set.
EnvironmentManagerService ==
  IF environ.INPUT_GH_TOKEN = Unset \/ environ.INPUT_WAKATIME_API_KEY = Unset
  THEN [k |-> "raise", exc |-> "KeyError"]
  ELSE [k |-> "env",
        GH_TOKEN |-> environ.INPUT_GH_TOKEN,
        WAKATIME_API_KEY |-> environ.INPUT_WAKATIME_API_KEY,
        THEME_NAME |-> Getenv("INPUT_THEME_NAME", JStr("Aco"))]

\* GitHubStatsService.__init__(username): the guard on its first argument.
GitHubStatsServiceInit(username) ==
  IF ~Truthy(username) \/ username.k # "str" THEN "ValueError" ELSE "none"

\* The number of positional parameters get_github_stats, get_waka_time_stats
\* and fetch_theme_data declare after self.
Parameters ==
  [get_github_stats |-> 0, get_waka_time_stats |-> 0, fetch_theme_data |-> 0]

\* The three calls in the argument list of asyncio.gather, in order, with
\* the number of arguments each is given.
GatherArguments ==
  << [task |-> "github", method |-> "get_github_stats", args |-> 1],
     [task |-> "wakatime", method |-> "get_waka_time_stats", args |-> 0],
     [task |-> "theme", method |-> "fetch_theme_data", args |-> 0] >>

AllTasks == { GatherArguments[i].task : i \in 1..Len(GatherArguments) }

\* Calling a coroutine function: the arguments are bound to the parameters
\* first, and a call with another number of arguments raises TypeError
\* before a coroutine exists.
CallCoroutine(call) ==
  IF call.args = Parameters[call.method]
  THEN [k |-> "coroutine", task |-> call.task]
  ELSE [k |-> "raise", exc |-> "TypeError"]

\* The argument list is evaluated from left to right; the first call that
\* raises ends the evaluation, and asyncio.gather is not called.
RECURSIVE EvaluateArguments(_, _)
EvaluateArguments(calls, coroutines) ==
  IF calls = <<>> THEN [k |-> "coroutines", tasks |-> coroutines]
  ELSE LET c == CallCoroutine(Head(calls))
       IN  IF c.k = "raise" THEN c
           ELSE EvaluateArguments(Tail(calls), coroutines \cup {c.task})

\* The service variables while main.py runs: the service is constructed
\* with the default max_repos and get_github_stats has not been entered.
DefaultMaxRepos == 1000

InitMain ==
  /\ pc = "start"
  /\ max_repos = DefaultMaxRepos
  /\ now_year \in CurrentYears
  /\ top_n = TopN
  /\ series = <<>>
  /\ reference_date = 0
  /\ streaks = NoStreaks
  /\ profile = JNull
  /\ all_repos = <<>>
  /\ cursor = JNull
  /\ has_next_page = JBool(TRUE)
  /\ user_data = NoneVal
  /\ calculated_stats = NoneVal
  /\ github_languages = <<>>
  /\ account_age = 0
  /\ result = NoneVal
  /\ inflight = 0
  /\ requests = <<>>
  /\ responses = <<>>
  /\ profile_outcome = "none"
  /\ escaped = {}
  /\ environ \in [INPUT_GH_TOKEN : TokenValues,
                  INPUT_WAKATIME_API_KEY : KeyValues,
                  INPUT_THEME_NAME : ThemeValues]
  /\ env = NoneVal
  /\ login = ""
  /\ main_pc = "import"
  /\ stdout = <<>>
  /\ tasks = {}
  /\ uncaught = "none"

\* What main.py leaves alone: the state of get_github_stats, which it never
\* enters.
service ==
  <<pc, max_repos, now_year, top_n, calendar, profile, all_repos, cursor,
    has_next_page, user_data, reductions, result, inflight, history,
    profile_outcome, escaped>>

\* import of environment_manager_service: the class body reads the
\* environment.
LoadEnvironment ==
  /\ main_pc = "import" /\ uncaught = "none"
  /\ LET e == EnvironmentManagerService
     IN  IF e.k = "raise"
         THEN /\ uncaught' = e.exc
              /\ UNCHANGED <<env, main_pc>>
         ELSE /\ env' = e
              /\ main_pc' = "construct"
              /\ UNCHANGED uncaught
  /\ UNCHANGED <<service, environ, login, stdout, tasks>>

\* The module-level constructions: env, github_stats (given the token as its
\* username), wakatime_stats, github, theme, and the banner font.
ConstructServices ==
  /\ main_pc = "construct" /\ uncaught = "none"
  /\ LET e == GitHubStatsServiceInit(env.GH_TOKEN)
     IN  IF e # "none"
         THEN /\ uncaught' = e
              /\ UNCHANGED main_pc
         ELSE /\ main_pc' = "banner"
              /\ UNCHANGED uncaught
  /\ UNCHANGED <<service, environ, env, login, stdout, tasks>>

\* main prints the banner.
PrintBanner ==
  /\ main_pc = "banner" /\ uncaught = "none"
  /\ stdout' = Append(stdout, "Gl1tch-Card")
  /\ main_pc' = "get_user"
  /\ UNCHANGED <<service, environ, env, login, tasks, uncaught>>

\* username = github.get_user().
GetUser(o) ==
  /\ main_pc = "get_user" /\ uncaught = "none"
  /\ IF o \in Logins
     THEN /\ login' = o
          /\ main_pc' = "print_user"
          /\ UNCHANGED uncaught
     ELSE /\ uncaught' = o
          /\ UNCHANGED <<login, main_pc>>
  /\ UNCHANGED <<service, environ, env, stdout, tasks>>

\* print(username).
PrintUser ==
  /\ main_pc = "print_user" /\ uncaught = "none"
  /\ stdout' = Append(stdout, login)
  /\ main_pc' = "gather"
  /\ UNCHANGED <<service, environ, env, login, tasks, uncaught>>

\* The asyncio.gather expression: its arguments are evaluated, and only
\* then are the coroutines wrapped in tasks and awaited.
Gather ==
  /\ main_pc = "gather" /\ uncaught = "none"
  /\ LET a == EvaluateArguments(GatherArguments, {})
     IN  IF a.k = "raise"
         THEN /\ uncaught' = a.exc
              /\ UNCHANGED <<tasks, main_pc>>
         ELSE /\ tasks' = a.tasks
              /\ main_pc' = "await"
              /\ UNCHANGED uncaught
  /\ UNCHANGED <<service, environ, env, login, stdout>>

NextMain ==
  \/ LoadEnvironment
  \/ ConstructServices
  \/ PrintBanner
  \/ \E o \in LoginOutcomes : GetUser(o)
  \/ PrintUser
  \/ Gather

SpecMain == InitMain /\ [][NextMain]_vars


\* ============================================================== claims
\* The states in which _fetch_all_repositories has returned.
Returned == pc \in {"fetched", "reduce", "build", "done"}

\* The records of the pages a sequence of responses carried, in order.
RECURSIVE ConcatPages(_)
ConcatPages(rs) ==
  IF rs = <<>> THEN <<>>
  ELSE (IF Head(rs).nodes.k = "list" THEN Items(Head(rs).nodes) ELSE <<>>)
       \o ConcatPages(Tail(rs))

\* All but the last response.
Front(rs) == SubSeq(rs, 1, Len(rs) - 1)

\* C1: once the aggregate of a collection is computed, each of its five
\* totals equals the public part plus the private part.
C1_TotalIsPublicPlusPrivate ==
  pc \in {"build", "done"} =>
    /\ calculated_stats.total_stars
         = calculated_stats.public_stars + calculated_stats.private_stars
    /\ calculated_stats.total_forks
         = calculated_stats.public_forks + calculated_stats.private_forks
    /\ calculated_stats.total_issues
         = calculated_stats.public_issues + calculated_stats.private_issues
    /\ calculated_stats.total_pulls
         = calculated_stats.public_pulls + calculated_stats.private_pulls
    /\ calculated_stats.total_commits
         = calculated_stats.public_commits + calculated_stats.private_commits

\* An aggregate over a collection that mixes public and private records
\* with non-zero counts.
C1_Witness ==
  /\ pc = "build"
  /\ calculated_stats.public_repos > 0
  /\ calculated_stats.private_repos > 0
  /\ calculated_stats.public_commits > 0
  /\ calculated_stats.private_stars > 0

\* C2: the accumulated collection is never longer than max_repos.
C2_LengthNeverExceedsMax == Len(all_repos) <= max_repos

\* C3: when the last page request failed, the loop has stopped without
\* raising and the collection is exactly the pages before the failed one.
C3_FailedPageAddsNothing ==
  (responses # <<>> /\ responses[Len(responses)].fail # "none") =>
    /\ Returned
    /\ escaped = {}
    /\ all_repos = ConcatPages(Front(responses))

\* C4: the pagination loop terminates: the run eventually leaves the loop,
\* whatever the feed answers.
C4_LoopTerminates == <>(pc \notin {"start", "profile_wait", "loop", "page_wait"})

\* C5: page requests form one strict sequence: at most one request is
\* outstanding, the first carries no cursor, and each later one is sent
\* after the response to the one before it and carries that response's
\* endCursor.
C5_RequestsInSequence ==
  /\ inflight <= 1
  /\ (inflight = 1) = (pc \in {"profile_wait", "page_wait"})
  /\ Len(requests) = Len(responses) + (IF pc = "page_wait" THEN 1 ELSE 0)
  /\ requests # <<>> => requests[1].after = JNull
  /\ \A i \in 1..Len(requests) :
       i > 1 => /\ responses[i - 1].fail = "none"
                /\ requests[i].after = responses[i - 1].pageInfo.endCursor

\* A second request that carries the cursor of the first page.
C5_Witness ==
  /\ Len(requests) >= 2
  /\ requests[2].after # JNull
  /\ pc = "page_wait"

\* C6: when no request failed and the cap was not reached, what the loop
\* returns is the pages in order up to the first one without a next page,
\* and that page was the last one requested.
C6_ExhaustedFeedIsConcatenation ==
  ( /\ Returned
    /\ responses # <<>>
    /\ \A i \in 1..Len(responses) : responses[i].fail = "none"
    /\ Len(all_repos) < max_repos ) =>
    /\ all_repos = ConcatPages(responses)
    /\ Len(requests) = Len(responses)
    /\ \A i \in 1..Len(responses) :
         responses[i].pageInfo.hasNextPage = JBool(i < Len(responses))

\* A run of more than one page that ends at a page without a next page,
\* below the cap.
C6_Witness ==
  /\ pc = "done"
  /\ Len(responses) >= 2
  /\ \A i \in 1..Len(responses) : responses[i].fail = "none"
  /\ Len(all_repos) < max_repos
  /\ Len(all_repos) > page_size

\* C7: no page request is sent once the collection has max_repos records,
\* and the collection stays below max_repos plus one page.
C7_CapStopsRequests ==
  /\ \A i \in 1..Len(requests) : requests[i].have < max_repos
  /\ Len(all_repos) < max_repos + page_size

\* max_repos 150 and two pages of 100 with a next page: the loop stopped
\* after the second request.
C7_Witness ==
  /\ pc = "done"
  /\ max_repos = 150
  /\ Len(requests) = 2
  /\ Len(all_repos) = 2 * page_size
  /\ responses[2].pageInfo.hasNextPage = JBool(TRUE)

\* C8: a response whose body has a top-level errors array adds no record
\* to the collection and its pageInfo is not used.
C8_ErrorsResponseIsDiscarded ==
  \A i \in 1..Len(responses) :
    responses[i].errors =>
      responses[i].appended = 0 /\ ~responses[i].usedPageInfo

DictOrAbsent(o, key) == key \notin DOMAIN o \/ o[key].k = "obj"

\* A record whose nested blocks are dicts where the assembly reads into
\* them.
WellFormedRecord(r) ==
  /\ r.k = "obj"
  /\ DictOrAbsent(r, "issues")
  /\ DictOrAbsent(r, "pullRequests")
  /\ "defaultBranchRef" \in DOMAIN r /\ Truthy(r.defaultBranchRef) =>
       /\ r.defaultBranchRef.k = "obj"
       /\ "target" \in DOMAIN r.defaultBranchRef
            /\ Truthy(r.defaultBranchRef.target) =>
              /\ r.defaultBranchRef.target.k = "obj"
              /\ DictOrAbsent(r.defaultBranchRef.target, "history")
  /\ "primaryLanguage" \in DOMAIN r /\ Truthy(r.primaryLanguage) =>
       r.primaryLanguage.k = "obj"

\* A profile whose count blocks are dicts.
WellFormedProfile(u) ==
  /\ DictOrAbsent(u, "gists")
  /\ DictOrAbsent(u, "followers")
  /\ DictOrAbsent(u, "following")

C10_NoExceptionEscapes ==
  /\ escaped = {}
  /\ pc = "done" => result.k \in {"null", "GitHubStats"}

\* A run that ended after a page response whose body could not be used:
\* no records were read from it.
C10_Witness ==
  /\ pc = "done"
  /\ responses # <<>>
  /\ responses[Len(responses)].fail = "malformed"
  /\ responses[Len(responses)].nodes = JNull
  /\ profile_outcome = "none"

\* The fields of a CalculatedStats.
StatsFields == DOMAIN ZeroStats

\* C11: the aggregation and the language ranking return a result for every
\* collection: the aggregate is a CalculatedStats of naturals and the
\* ranking a list of at most top_n names; for the empty collection every
\* field of the aggregate is 0 and the ranking is empty.
C11_ReductionsAreTotal ==
  pc \in {"build", "done"} =>
    /\ DOMAIN calculated_stats = StatsFields
    /\ \A f \in StatsFields : calculated_stats[f] \in Nat
    /\ Len(github_languages) <= TopN
    /\ all_repos = <<>> =>
         calculated_stats = ZeroStats /\ github_languages = <<>>

\* The reductions over a collection that holds a null record: the try
\* blocks raised and the except branches answered.
C11_Witness ==
  /\ pc = "build"
  /\ Len(all_repos) = MaxLen
  /\ \E i \in 1..Len(all_repos) : all_repos[i] = JNull
  /\ \E i \in 1..Len(all_repos) : all_repos[i] # JNull
  /\ calculated_stats = ZeroStats
  /\ github_languages = <<>>

\* The count at the end of a path of keys into a record: 0 when a block on
\* the path is missing or null.
RECURSIVE CountAt(_, _)
CountAt(o, path) ==
  IF path = <<>> THEN (IF o.k = "int" THEN o.v ELSE 0)
  ELSE IF o.k # "obj" \/ Head(path) \notin DOMAIN o THEN 0
  ELSE CountAt(o[Head(path)], Tail(path))

\* The keys from a record to the count of a metric.
PathOf(m) ==
  CASE m = "stars" -> <<"stargazerCount">>
    [] m = "forks" -> <<"forkCount">>
    [] m = "issues" -> <<"issues", "totalCount">>
    [] m = "pulls" -> <<"pullRequests", "totalCount">>
    [] m = "commits" -> <<"defaultBranchRef", "target", "history", "totalCount">>

\* The sum of the counts of metric m over a collection.
RECURSIVE SumCounts(_, _)
SumCounts(m, repos) ==
  IF repos = <<>> THEN 0
  ELSE CountAt(Head(repos), PathOf(m)) + SumCounts(m, Tail(repos))

\* A repository record whose own counts are numbers; its nested blocks may
\* be present, missing or null.
HasOwnCounts(r) ==
  /\ r.k = "obj"
  /\ \A key \in {"stargazerCount", "forkCount"} :
       key \in DOMAIN r => r[key].k = "int"

\* C12: over records whose nested blocks may be missing or null, each total
\* of the aggregate is the sum of the records' counts, a missing or null
\* block counting 0.
C12_MissingNestedFieldsCountZero ==
  ( /\ pc \in {"build", "done"}
    /\ \A i \in 1..Len(all_repos) : HasOwnCounts(all_repos[i]) ) =>
    /\ calculated_stats.total_stars = SumCounts("stars", all_repos)
    /\ calculated_stats.total_forks = SumCounts("forks", all_repos)
    /\ calculated_stats.total_issues = SumCounts("issues", all_repos)
    /\ calculated_stats.total_pulls = SumCounts("pulls", all_repos)
    /\ calculated_stats.total_commits = SumCounts("commits", all_repos)

\* The primary-language name of a record, "" when it has none.
LangOf(r) ==
  IF "primaryLanguage" \in DOMAIN r /\ r.primaryLanguage.k = "obj"
     /\ "name" \in DOMAIN r.primaryLanguage
     /\ r.primaryLanguage.name.k = "str"
  THEN r.primaryLanguage.name.v ELSE ""

\* The positions of the records of language lang in a collection.
PositionsOf(lang, repos) == { i \in 1..Len(repos) : LangOf(repos[i]) = lang }

\* The distinct primary-language names of a collection.
LangsIn(repos) == { LangOf(repos[i]) : i \in 1..Len(repos) } \ {""}

\* The position at which lang is first met.
FirstSeen(lang, repos) ==
  CHOOSE i \in PositionsOf(lang, repos) :
    \A j \in PositionsOf(lang, repos) : i <= j

Min(a, b) == IF a <= b THEN a ELSE b

\* C13: the ranking lists languages by descending count, and languages of
\* equal count in the order in which they were first met.
C13_RankedByCountThenFirstSeen ==
  pc = "ranked" =>
    \A i, j \in 1..Len(github_languages) :
      i < j =>
        LET a == github_languages[i]
            b == github_languages[j]
            ca == Cardinality(PositionsOf(a, all_repos))
            cb == Cardinality(PositionsOf(b, all_repos))
        IN  \/ ca > cb
            \/ ca = cb /\ FirstSeen(a, all_repos) < FirstSeen(b, all_repos)

\* The ranking of [A, B, A, B] with top_n 2 is [A, B].
C13_Witness ==
  /\ pc = "ranked"
  /\ top_n = 2
  /\ all_repos = <<LangRepo("A"), LangRepo("B"), LangRepo("A"), LangRepo("B")>>
  /\ github_languages = <<"A", "B">>

\* C14: the ranking has min(top_n, number of distinct languages) entries,
\* each a language of the collection and none twice; it is empty for the
\* empty collection and for top_n 0.
C14_RankingSize ==
  pc = "ranked" =>
    /\ Len(github_languages) = Min(top_n, Cardinality(LangsIn(all_repos)))
    /\ \A i \in 1..Len(github_languages) :
         github_languages[i] \in LangsIn(all_repos)
    /\ \A i, j \in 1..Len(github_languages) :
         github_languages[i] = github_languages[j] => i = j
    /\ all_repos = <<>> => github_languages = <<>>
    /\ top_n = 0 => github_languages = <<>>

\* A collection of three languages and a record without one, cut to two
\* entries.
C14_Witness ==
  /\ pc = "ranked"
  /\ top_n = 2
  /\ Cardinality(LangsIn(all_repos)) = 3
  /\ \E i \in 1..Len(all_repos) : LangOf(all_repos[i]) = ""
  /\ Len(github_languages) = 2

\* C15: the streak result has longest_streak >= current_streak >= 0, and
\* the empty series gives (0, 0).
C15_LongestAtLeastCurrent ==
  pc = "streaks_done" =>
    /\ streaks.longest_streak >= streaks.current_streak
    /\ streaks.current_streak >= 0
    /\ series = <<>> =>
         streaks.current_streak = 0 /\ streaks.longest_streak = 0

\* A series given out of date order, with a date twice, whose current
\* streak is shorter than its longest.
C15_Witness ==
  /\ pc = "streaks_done"
  /\ Len(series) = MaxDays
  /\ series[1].date > series[2].date
  /\ \E i, j \in 1..Len(series) : i # j /\ series[i].date = series[j].date
  /\ streaks.current_streak > 0
  /\ streaks.longest_streak > streaks.current_streak

\* The days of a series on or before the reference date.
OnOrBefore(days, ref) == SelectSeq(days, LAMBDA d : d.date <= ref)

\* C16: the days after the reference date do not change current_streak: it
\* is the current_streak of the series without those days.
C16_LaterDaysLeaveCurrent ==
  pc = "streaks_done" =>
    streaks.current_streak
      = ComputeStreaks(OnOrBefore(series, reference_date),
                       reference_date).current_streak

\* A series given with a later day first, whose longest streak grew from
\* the days after the reference date and whose current streak did not.
C16_Witness ==
  /\ pc = "streaks_done"
  /\ series # <<>>
  /\ series[1].date > reference_date
  /\ series[1].count > 0
  /\ streaks.current_streak > 0
  /\ streaks.longest_streak
       > ComputeStreaks(OnOrBefore(series, reference_date),
                        reference_date).longest_streak

\* The calendar dates with a non-zero contribution count in a series.
ActiveDates(days) == { days[i].date : i \in { j \in 1..Len(days) : days[j].count > 0 } }

\* The length of the longest run of consecutive calendar dates that are all
\* active.
LongestRun(days) ==
  LET runs == { <<a, b>> \in (1..MaxDate) \X (1..MaxDate) :
                  a <= b /\ \A d \in a..b : d \in ActiveDates(days) }
      lengths == { r[2] - r[1] + 1 : r \in runs } \cup {0}
  IN  CHOOSE n \in lengths : \A k \in lengths : k <= n

\* C17: longest_streak is the length of the longest run of consecutive
\* calendar days that each have a non-zero contribution count.
C17_LongestIsLongestRun ==
  pc = "streaks_done" => streaks.longest_streak = LongestRun(series)

\* C18: for a profile with a creation timestamp, the account age is the
\* current calendar year minus the calendar year of the timestamp, also in
\* the snapshot.
C18_AgeIsYearDifference ==
  ( /\ pc \in {"build", "done"}
    /\ user_data # NoneVal
    /\ "createdAt" \in DOMAIN profile
    /\ profile.createdAt.k = "str"
    /\ "year" \in DOMAIN profile.createdAt ) =>
    /\ account_age = now_year - profile.createdAt.year
    /\ (pc = "done" /\ result.k = "GitHubStats") =>
         result.account_age_years = now_year - profile.createdAt.year

\* An account created in 2019, in 2027: eight years.
C18_Witness ==
  /\ pc = "done"
  /\ result.k = "GitHubStats"
  /\ "createdAt" \in DOMAIN profile
  /\ profile.createdAt = JTime(2019)
  /\ now_year = 2027
  /\ result.account_age_years = 8

\* The field of the GitHubUser that holds an optional key of the raw
\* profile.
UserFieldOf(key) ==
  CASE key = "websiteUrl" -> "blog"
    [] key = "createdAt" -> "created_at"
    [] key = "avatarUrl" -> "avatar_url"
    [] OTHER -> key

\* C19: in the snapshot an optional field absent from the raw profile is
\* None and every other one has the raw value: absent is never "", and ""
\* stays "".
C19_AbsentIsUnsetNotEmpty ==
  (pc = "done" /\ result.k = "GitHubStats") =>
    \A key \in OptionalKeys :
      result.user[UserFieldOf(key)]
        = IF key \in DOMAIN profile THEN profile[key] ELSE JNull

\* A snapshot of a profile without a name: the name is None and the bio,
\* which is the empty string, stays the empty string.
C19_Witness ==
  /\ pc = "done"
  /\ result.k = "GitHubStats"
  /\ "name" \notin DOMAIN profile
  /\ result.user.name = JNull
  /\ result.user.bio = JStr("")

\* The number of records the page responses added to the collection.
RECURSIVE SumAppended(_)
SumAppended(rs) ==
  IF rs = <<>> THEN 0 ELSE Head(rs).appended + SumAppended(Tail(rs))

\* The loop has ended: its condition is false, or the last response made
\* it break.
LoopEnded ==
  \/ ~LoopCondition(has_next_page, all_repos, max_repos)
  \/ responses # <<>> /\ responses[Len(responses)].fail # "none"

\* C20: when the reductions run, the pagination loop has ended and every
\* request was answered; the collection they read is the one the loop
\* returned, whole, and so is the one the snapshot is assembled from.
C20_ReductionsAfterPagination ==
  (pc \in {"reduce", "build"} \/ (pc = "done" /\ result.k = "GitHubStats")) =>
    /\ inflight = 0
    /\ Len(requests) = Len(responses)
    /\ LoopEnded
    /\ Len(all_repos) = SumAppended(responses)
    /\ user_data.repositories = all_repos
    /\ pc \in {"build", "done"} =>
         /\ calculated_stats = CalculateRepoStats(all_repos)
         /\ github_languages = ExtractLanguages(all_repos, top_n)
    /\ pc = "done" => Len(result.repositories) = Len(all_repos)

\* The reductions ran over the records of two pages.
C20_Witness ==
  /\ pc = "build"
  /\ Len(responses) = 2
  /\ Len(all_repos) > page_size
  /\ calculated_stats.public_repos + calculated_stats.private_repos
       = Len(all_repos)
  /\ calculated_stats.total_stars > 0

\* The page requests that were answered with a usable page.
SuccessfulPages == { i \in 1..Len(responses) : responses[i].fail = "none" }

\* C22: a failed page request is the last request of the run: none follows
\* it, so the run makes at most one request more than it has successful
\* pages.
C22_NoRequestAfterFailure ==
  /\ \A i \in 1..Len(responses) :
       responses[i].fail # "none" =>
         /\ i = Len(responses)
         /\ Len(requests) = i
         /\ pc \notin {"loop", "page_wait"}
  /\ Len(requests) <= Cardinality(SuccessfulPages) + 1

\* A run whose second page request was answered with an error status and
\* that ended after two requests.
C22_Witness ==
  /\ pc = "done"
  /\ Len(requests) = 2
  /\ Len(responses) = 2
  /\ responses[1].fail = "none"
  /\ responses[2].fail = "status"

\* The visibility flag of a record is present and truthy.
FlaggedPrivate(r) ==
  r.k = "obj" /\ "isPrivate" \in DOMAIN r /\ Truthy(r.isPrivate)

\* C23: the aggregate counts every record of a collection of dicts once: as
\* private when its flag is truthy, as public when it is falsy or absent,
\* and the two counts add up to the length of the collection.
C23_EveryRecordCountedOnce ==
  (pc \in {"build", "done"} /\ AllDicts(all_repos)) =>
    /\ calculated_stats.private_repos
         = Cardinality({ i \in 1..Len(all_repos) : FlaggedPrivate(all_repos[i]) })
    /\ calculated_stats.public_repos
         = Cardinality({ i \in 1..Len(all_repos) : ~FlaggedPrivate(all_repos[i]) })
    /\ calculated_stats.public_repos + calculated_stats.private_repos
         = Len(all_repos)

\* The sum of a count field over the repositories of a snapshot; a field
\* that holds no number adds 0.
RECURSIVE SumField(_, _)
SumField(field, models) ==
  IF models = <<>> THEN 0
  ELSE (IF Head(models)[field].k = "int" THEN Head(models)[field].v ELSE 0)
       + SumField(field, Tail(models))

\* C24: a returned snapshot agrees with the one fetched collection: its
\* repositories are the records of the fetched pages, in order; the public
\* and private counts add up to their number; each total is the sum of the
\* metric over them.
C24_SnapshotIsConsistent ==
  (pc = "done" /\ result.k = "GitHubStats") =>
    LET fetched == ConcatPages(responses)
        repositories == result.repositories
    IN  /\ Len(repositories) = Len(fetched)
        /\ \A i \in 1..Len(repositories) :
             /\ repositories[i].name = fetched[i].name
             /\ repositories[i].is_private = fetched[i].isPrivate
        /\ result.stats.public_repos + result.stats.private_repos
             = Len(repositories)
        /\ result.stats.total_stars = SumField("stargazer_count", repositories)
        /\ result.stats.total_forks = SumField("fork_count", repositories)
        /\ result.stats.total_issues = SumField("issues_count", repositories)
        /\ result.stats.total_pulls = SumField("pull_requests_count", repositories)
        /\ result.stats.total_commits = SumField("commits_count", repositories)

\* The asyncio.gather expression of main has been executed.
GatherExecuted ==
  \/ main_pc = "await"
  \/ main_pc = "gather" /\ uncaught # "none"

\* C21: once main has executed its gather expression the three fetches
\* have been started as tasks, and nothing is printed after the user name
\* before all three of them were started.
C21_ThreeTasksGathered ==
  /\ GatherExecuted => tasks = AllTasks
  /\ Len(stdout) > 2 => tasks = AllTasks

====
